---- MODULE Spec2Model ----
(***************************************************************************)
(* Model of biotite.structure.charges: partial_charges (the PEOE           *)
(* algorithm of Gasteiger-Marsili) and _get_parameters.                    *)
(*                                                                         *)
(* Floating-point numbers are modelled as records [nan, v]: nan says the   *)
(* value is NaN, v is the value in units of 1/Scale (fixed point).         *)
(* Multiplication and division round towards zero on the magnitude, so     *)
(* that, as in IEEE-754, negating an operand negates the result.           *)
(* The charge buffers are float64 arrays.                                  *)
(***************************************************************************)
EXTENDS Integers, Sequences, FiniteSets, TLC

\* ------------------------------------------------------------- bounds
MaxAtoms == 2
MaxIter == 2

\* ------------------------------------------------------------- floats
Kilo == 10 * 100
Scale == Kilo * Kilo
Cent == Scale \div 100

NaN == [nan |-> TRUE, v |-> 0]
Num(x) == [nan |-> FALSE, v |-> x]
IsNaN(x) == x.nan
Abs(x) == IF x < 0 THEN -x ELSE x
Sgn(x) == IF x < 0 THEN -1 ELSE 1

FAdd(x, y) == IF x.nan \/ y.nan THEN NaN ELSE Num(x.v + y.v)
FSub(x, y) == IF x.nan \/ y.nan THEN NaN ELSE Num(x.v - y.v)

\* |a| * |b| / Scale without leaving 32 bits: both factors are split at Kilo.
MulMag(a, b) ==
    LET ah == a \div Kilo  al == a % Kilo
        bh == b \div Kilo  bl == b % Kilo
    IN  ah * bh + ((ah * bl + al * bh + ((al * bl) \div Kilo)) \div Kilo)

FMul(x, y) ==
    IF x.nan \/ y.nan THEN NaN
    ELSE Num(Sgn(x.v) * Sgn(y.v) * MulMag(Abs(x.v), Abs(y.v)))

\* Long division: `digits` further decimal digits of r / d, r < d.
RECURSIVE LongDiv(_, _, _)
LongDiv(r, d, digits) ==
    IF digits = 0 THEN 0
    ELSE LET q == (r * 10) \div d
             rest == (r * 10) % d
         IN  q * (10 ^ (digits - 1)) + LongDiv(rest, d, digits - 1)

DivMag(a, d) == (a \div d) * Scale + LongDiv(a % d, d, 6)

FDiv(x, y) ==
    IF x.nan \/ y.nan THEN NaN
    ELSE Num(Sgn(x.v) * Sgn(y.v) * DivMag(Abs(x.v), Abs(y.v)))

\* x * damping, the damping factor being 1 / den, den a power of two.
FDamp(x, den) == IF x.nan THEN NaN ELSE Num(Sgn(x.v) * (Abs(x.v) \div den))

RECURSIVE SumSeq(_)
SumSeq(s) == IF s = << >> THEN Num(0) ELSE FAdd(Head(s), SumSeq(Tail(s)))

Range(s) == {s[k] : k \in DOMAIN s}

\* ------------------------------------------------------ parameter table
\* EN_PARAMETERS[element][binding partners] = (a, b, c), in hundredths of eV.
EN_PARAMETERS ==
    (<<"H", 1>> :> <<717, 624, -56>>) @@
    (<<"C", 4>> :> <<798, 918, 188>>) @@
    (<<"C", 3>> :> <<879, 918, 188>>) @@
    (<<"C", 2>> :> <<1039, 945, 73>>) @@
    (<<"N", 4>> :> <<1154, 1082, 136>>) @@
    (<<"N", 3>> :> <<1154, 1082, 136>>) @@
    (<<"N", 2>> :> <<1287, 1115, 85>>) @@
    (<<"N", 1>> :> <<1568, 1170, -27>>) @@
    (<<"O", 2>> :> <<1418, 1292, 139>>) @@
    (<<"O", 1>> :> <<1707, 1379, 47>>) @@
    (<<"S", 2>> :> <<1014, 913, 138>>) @@
    (<<"F", 1>> :> <<1466, 1385, 231>>) @@
    (<<"Cl", 1>> :> <<1100, 969, 135>>) @@
    (<<"Br", 1>> :> <<1008, 847, 116>>) @@
    (<<"I", 1>> :> <<990, 796, 96>>)

EN_POS_HYDROGEN == Num(2002 * Cent)
HydrogenSum == Num(1285 * Cent)

\* The element symbols of the model's inputs, in the order np.unique sorts them.
SortedSymbols == <<"C", "F", "H", "O", "Se">>

\* ------------------------------------------------------------- state
VARIABLES
    elements,            \* atom_array.element
    has_bonds,           \* atom_array.bonds is not None
    atom_bonds,          \* atom_array.bonds.as_array(), as pairs <<i, j>>
    has_annot,           \* atom_array has an annotation "charges"
    charges_kw,          \* the caller passed the argument charges
    heap,                \* the arrays: caller's buffer, annotation, fresh zeros
    iteration_step_num,
    pc,                  \* position in partial_charges
    charges,             \* which array of the heap the local `charges` names
    parameters,
    warnings,            \* warnings.warn calls of the current call, in order
    damping,             \* the damping factor is 1 / damping
    step,                \* iterations of the outer loop completed or running
    charge_array,
    en_values,
    pos_en_values,
    b,                   \* index of the next bond of the inner loop
    result,              \* what the call returned (<< >> before it returns)
    returned,            \* the values returned by the calls so far
    charges0,            \* history: the charges the current call started from
    processed            \* history: per iteration, the bonds processed in it

vars == <<elements, has_bonds, atom_bonds, has_annot, charges_kw, heap,
          iteration_step_num, pc, charges, parameters, warnings, damping, step,
          charge_array, en_values, pos_en_values, b, result, returned, charges0,
          processed>>

NAtoms == Len(elements)
Atoms == 1 .. NAtoms

\* ----------------------------------------------------- _get_parameters
\* len(bonds[i]): the number of bonds atom i takes part in.
AmountOfBindingPartners(els, bl) ==
    [i \in 1 .. Len(els) |->
        Cardinality({k \in DOMAIN bl : i \in {bl[k][1], bl[k][2]}})]

HasKey(els, amount, i) == <<els[i], amount[i]>> \in DOMAIN EN_PARAMETERS

GetParameters(els, amount) ==
    [i \in 1 .. Len(els) |->
        IF HasKey(els, amount, i)
        THEN LET t == EN_PARAMETERS[<<els[i], amount[i]>>]
             IN  <<Num(t[1] * Cent), Num(t[2] * Cent), Num(t[3] * Cent)>>
        ELSE <<NaN, NaN, NaN>>]

RECURSIVE ListOfUnparametrized(_, _, _)
ListOfUnparametrized(els, amount, i) ==
    IF i > Len(els) THEN << >>
    ELSE IF HasKey(els, amount, i)
         THEN ListOfUnparametrized(els, amount, i + 1)
         ELSE <<els[i]>> \o ListOfUnparametrized(els, amount, i + 1)

\* np.unique: sorted, each value once.
Unique_NoDedup(list) == list
Unique(list) == SelectSeq(SortedSymbols, LAMBDA e : e \in Range(list))

UnparametrizedWarning(list) ==
    [category |-> "unparametrized", atoms |-> Unique(list)]

GetParametersWarnings(w, els, amount) ==
    LET list == ListOfUnparametrized(els, amount, 1)
    IN  IF list # << >> THEN Append(w, UnparametrizedWarning(list)) ELSE w

MissingChargeWarning == [category |-> "no_formal_charge", atoms |-> << >>]

\* ----------------------------------------------- electronegativities
One == Num(Scale)

ChargeArray(ch) == [i \in DOMAIN ch |-> <<One, ch[i], FMul(ch[i], ch[i])>>]

EnValues(par, ca) ==
    [i \in DOMAIN par |->
        FAdd(FAdd(FMul(par[i][1], ca[i][1]), FMul(par[i][2], ca[i][2])),
             FMul(par[i][3], ca[i][3]))]

PosEn_NoHydrogen(par, i) == FAdd(FAdd(par[i][1], par[i][2]), par[i][3])
PosEn(par, i) ==
    LET s == FAdd(FAdd(par[i][1], par[i][2]), par[i][3])
    IN  IF s = HydrogenSum THEN EN_POS_HYDROGEN ELSE s

PosEnValues(par) == [i \in DOMAIN par |-> PosEn(par, i)]

\* ------------------------------------------------------ one bond step
\* The electronegativities a bond step reads: those computed at the start of
\* the iteration (en_values is not refreshed inside the inner loop).
EnForBond_Fresh(en, par, ch) == EnValues(par, ChargeArray(ch))
EnForBond(en, par, ch) == en

\* charges[i] = nan for the endpoint(s) whose electronegativity is NaN.
NaNBranch_Both(ch, en, i, j) == [ch EXCEPT ![i] = NaN, ![j] = NaN]
NaNBranch_AllNaN(ch, en, i, j) ==
    [a \in DOMAIN ch |-> IF IsNaN(en[a]) THEN NaN ELSE ch[a]]
NaNBranch_Swapped(ch, en, i, j) ==
    IF IsNaN(en[i]) /\ IsNaN(en[j]) THEN [ch EXCEPT ![i] = NaN, ![j] = NaN]
    ELSE IF IsNaN(en[i]) THEN [ch EXCEPT ![j] = NaN]
    ELSE [ch EXCEPT ![i] = NaN]
NaNBranch(ch, en, i, j) ==
    IF IsNaN(en[i]) /\ IsNaN(en[j]) THEN [ch EXCEPT ![i] = NaN, ![j] = NaN]
    ELSE IF IsNaN(en[i]) THEN [ch EXCEPT ![i] = NaN]
    ELSE [ch EXCEPT ![j] = NaN]

Divisor_AlwaysFirst(en, pos, i, j) == pos[i]
Divisor(en, pos, i, j) == IF en[j].v > en[i].v THEN pos[i] ELSE pos[j]

ChargeTransfer(en, pos, damp, i, j) ==
    FDamp(FDiv(FSub(en[j], en[i]), Divisor(en, pos, i, j)), damp)

\* charges[i] += charge_transfer; charges[j] -= charge_transfer
ApplyTransfer_OneSided(ch, i, j, ct) == [ch EXCEPT ![i] = FAdd(ch[i], ct)]
ApplyTransfer(ch, i, j, ct) ==
    LET c1 == [ch EXCEPT ![i] = FAdd(ch[i], ct)]
    IN  [c1 EXCEPT ![j] = FSub(c1[j], ct)]

BondUpdate(ch, en, pos, damp, i, j) ==
    IF IsNaN(en[i]) \/ IsNaN(en[j])
    THEN NaNBranch(ch, en, i, j)
    ELSE ApplyTransfer(ch, i, j, ChargeTransfer(en, pos, damp, i, j))

\* Which array the local `charges` names: the argument, else the annotation,
\* else a fresh array of zeros.
ResolveCharges(kw, annot) ==
    IF kw THEN "arg" ELSE IF annot THEN "annot" ELSE "fresh"

\* damping *= 0.5
Halve_Not(d) == d
Halve(d) == d * 2

\* What partial_charges has emitted when it reaches the check of the BondList:
\* the two statements before it emit nothing.
BeforeBondCheck_ChargesFirst(w, kw, annot) ==
    IF ~kw /\ ~annot THEN Append(w, MissingChargeWarning) ELSE w
BeforeBondCheck(w, kw, annot) == w

\* ------------------------------------------------------------ inputs
DefaultIterationStepNum == 6

GenericSymbols == {"H", "O", "Se"}

\* The bond lists over n atoms: every bond once, as <<i, j>> with i < j, in any
\* order.
Pairs(n) == {p \in (1 .. n) \X (1 .. n) : p[1] < p[2]}
BondLists(n) ==
    {bl \in UNION {[1 .. m -> Pairs(n)] : m \in 0 .. Cardinality(Pairs(n))} :
        \A k, l \in DOMAIN bl : k # l => bl[k] # bl[l]}

ChargeValues == {Num(Scale), Num(-Scale), NaN}
Zeros(n) == [i \in 1 .. n |-> Num(0)]
InitialCharges(n) ==
    {Zeros(n)} \cup
    {[Zeros(n) EXCEPT ![i] = q] : i \in 1 .. n, q \in ChargeValues}

Fluoromethane ==
    [elements |-> <<"C", "F", "H", "H", "H">>,
     bonds |-> <<<<1, 2>>, <<1, 3>>, <<1, 4>>, <<1, 5>>>>]

Molecules ==
    UNION {{[elements |-> e, bonds |-> bl] :
               e \in [1 .. n -> GenericSymbols], bl \in BondLists(n)} :
           n \in 1 .. MaxAtoms}

\* A bonded pair next to an atom that takes part in no bond.
LoneAtomMolecules ==
    {[elements |-> e, bonds |-> <<<<1, 2>>>>] : e \in [1 .. 3 -> GenericSymbols]}

InitWith(mol, bonds_present, kw, annot, ch, n) ==
    /\ elements = mol.elements
    /\ has_bonds = bonds_present
    /\ atom_bonds = IF bonds_present THEN mol.bonds ELSE << >>
    /\ has_annot = annot
    /\ charges_kw = kw
    /\ heap = [arg |-> IF kw THEN ch ELSE << >>,
               annot |-> IF annot THEN ch ELSE << >>,
               fresh |-> << >>]
    /\ iteration_step_num = n
    /\ pc = "entry"
    /\ charges = "none"
    /\ parameters = << >>
    /\ warnings = << >>
    /\ damping = 1
    /\ step = 0
    /\ charge_array = << >>
    /\ en_values = << >>
    /\ pos_en_values = << >>
    /\ b = 1
    /\ result = << >>
    /\ returned = << >>
    /\ charges0 = IF kw \/ annot THEN ch ELSE Zeros(Len(mol.elements))
    /\ processed = << >>

ChargeInputs(n) ==
    {[kw |-> FALSE, annot |-> FALSE, ch |-> << >>]} \cup
    {[kw |-> k[1], annot |-> k[2], ch |-> c] :
        k \in {<<TRUE, FALSE>>, <<FALSE, TRUE>>},
        c \in InitialCharges(n)}

Init ==
    \/ \E mol \in Molecules \cup LoneAtomMolecules, bonds_present \in BOOLEAN,
          n \in 0 .. MaxIter :
         \E ci \in ChargeInputs(Len(mol.elements)) :
            InitWith(mol, bonds_present, ci.kw, ci.annot, ci.ch, n)
    \/ \E n \in (0 .. MaxIter) \cup {DefaultIterationStepNum} :
         \E ci \in ChargeInputs(Len(Fluoromethane.elements)) :
            InitWith(Fluoromethane, TRUE, ci.kw, ci.annot, ci.ch, n)

\* ------------------------------------------------------------ actions
\* partial_charges, bonds is None: raise AttributeError.
Raise ==
    /\ pc = "entry"
    /\ ~has_bonds
    /\ warnings' = BeforeBondCheck(warnings, charges_kw, has_annot)
    /\ pc' = "raised"
    /\ UNCHANGED <<elements, has_bonds, atom_bonds, has_annot, charges_kw, heap,
                   iteration_step_num, charges, parameters, damping, step,
                   charge_array, en_values, pos_en_values, b, result, returned,
                   charges0, processed>>

\* partial_charges up to the loop: the charges array, the binding partners,
\* the parameters and the warnings.
Setup ==
    /\ pc = "entry"
    /\ has_bonds
    /\ LET ref == ResolveCharges(charges_kw, has_annot)
           w0 == BeforeBondCheck(warnings, charges_kw, has_annot)
           w1 == IF ref = "fresh" THEN Append(w0, MissingChargeWarning) ELSE w0
           amount == AmountOfBindingPartners(elements, atom_bonds)
           hp == IF ref = "fresh"
                 THEN [heap EXCEPT !.fresh = Zeros(NAtoms)] ELSE heap
       IN  /\ charges' = ref
           /\ heap' = hp
           /\ parameters' = GetParameters(elements, amount)
           /\ warnings' = GetParametersWarnings(w1, elements, amount)
    /\ damping' = 1
    /\ step' = 0
    /\ processed' = << >>
    /\ pc' = "loop"
    /\ UNCHANGED <<elements, has_bonds, atom_bonds, has_annot, charges_kw,
                   iteration_step_num, charge_array, en_values, pos_en_values,
                   b, result, returned, charges0>>

\* The head of one iteration: damping, charge_array, en_values, pos_en_values.
IterStart ==
    /\ pc = "loop"
    /\ step < iteration_step_num
    /\ damping' = Halve(damping)
    /\ charge_array' = ChargeArray(heap[charges])
    /\ en_values' = EnValues(parameters, charge_array')
    /\ pos_en_values' = PosEnValues(parameters)
    /\ step' = step + 1
    /\ b' = 1
    /\ processed' = Append(processed, << >>)
    /\ pc' = IF atom_bonds = << >> THEN "loop" ELSE "bonds"
    /\ UNCHANGED <<elements, has_bonds, atom_bonds, has_annot, charges_kw, heap,
                   iteration_step_num, charges, parameters, warnings, result,
                   returned, charges0>>

\* One pass of the inner loop: the bond atom_bonds[b].
BondStep ==
    /\ pc = "bonds"
    /\ LET i == atom_bonds[b][1]
           j == atom_bonds[b][2]
           ch == heap[charges]
           en == EnForBond(en_values, parameters, ch)
       IN  heap' = [heap EXCEPT
                       ![charges] = BondUpdate(ch, en, pos_en_values, damping, i, j)]
    /\ processed' = [processed EXCEPT ![step] = Append(@, b)]
    /\ IF b = Len(atom_bonds)
       THEN pc' = "loop" /\ b' = 1
       ELSE pc' = "bonds" /\ b' = b + 1
    /\ UNCHANGED <<elements, has_bonds, atom_bonds, has_annot, charges_kw,
                   iteration_step_num, charges, parameters, warnings, damping,
                   step, charge_array, en_values, pos_en_values, result,
                   returned, charges0>>

\* partial_charges = charges; return partial_charges
Return ==
    /\ pc = "loop"
    /\ step >= iteration_step_num
    /\ result' = heap[charges]
    /\ returned' = Append(returned, heap[charges])
    /\ pc' = "done"
    /\ UNCHANGED <<elements, has_bonds, atom_bonds, has_annot, charges_kw, heap,
                   iteration_step_num, charges, parameters, warnings, damping,
                   step, charge_array, en_values, pos_en_values, b, charges0,
                   processed>>

\* The caller calls partial_charges again on the same atom array, with the same
\* iteration count and without the argument charges.
Recall ==
    /\ pc = "done"
    /\ ~charges_kw
    /\ Len(returned) = 1
    /\ pc' = "entry"
    /\ charges' = "none"
    /\ heap' = [heap EXCEPT !.fresh = << >>]
    /\ parameters' = << >>
    /\ warnings' = << >>
    /\ damping' = 1
    /\ step' = 0
    /\ charge_array' = << >>
    /\ en_values' = << >>
    /\ pos_en_values' = << >>
    /\ b' = 1
    /\ result' = << >>
    /\ charges0' = IF has_annot THEN heap.annot ELSE Zeros(NAtoms)
    /\ processed' = << >>
    /\ UNCHANGED <<elements, has_bonds, atom_bonds, has_annot, charges_kw,
                   iteration_step_num, returned>>

Next == Raise \/ Setup \/ IterStart \/ BondStep \/ Return \/ Recall

Spec == Init /\ [][Next]_vars

\* ============================================================ properties
Cur == heap[charges]
Running == pc \in {"loop", "bonds", "done"}
Amount == AmountOfBindingPartners(elements, atom_bonds)
Parametrized(i) == HasKey(elements, Amount, i)
Isolated(i) == Amount[i] = 0
Numeric(s) == \A i \in DOMAIN s : ~IsNaN(s[i])

\* C1: with every atom parametrized and every initial charge a number, the sum
\* of the charges equals the sum of the initial charges after every bond step
\* of every iteration.
T_C1_ChargeConservation ==
    (Running /\ Numeric(charges0) /\ \A i \in Atoms : Parametrized(i))
        => SumSeq(Cur) = SumSeq(charges0)

W_C1_TransferDone ==
    /\ pc = "bonds"
    /\ step >= 2
    /\ Numeric(charges0)
    /\ \A i \in Atoms : Parametrized(i)
    /\ \E i \in Atoms : Cur[i] # charges0[i]
    /\ SumSeq(charges0) # Num(0)

\* C2: two calls in succession on the same atom array, same iteration count,
\* charges omitted, return the same values.
CE_C2_RepeatedCallsAgree ==
    Len(returned) = 2 => returned[2] = returned[1]

UnparametrizedWarnings ==
    SelectSeq(warnings, LAMBDA w : w.category = "unparametrized")
MissingSymbols == {elements[i] : i \in {a \in Atoms : ~Parametrized(a)}}
Occurrences(s, e) == Cardinality({k \in DOMAIN s : s[k] = e})

\* The call emitted exactly one unparametrized-element warning, in which each
\* distinct missing element symbol appears once.
OneWarningEachSymbolOnce ==
    /\ Len(UnparametrizedWarnings) = 1
    /\ Range(UnparametrizedWarnings[1].atoms) = MissingSymbols
    /\ \A e \in MissingSymbols : Occurrences(UnparametrizedWarnings[1].atoms, e) = 1

\* C3 as stated: after a call with a positive iteration count every atom
\* without a table entry has the charge NaN, and there is exactly one
\* unparametrized-element warning naming each missing symbol once.
CE_C3_EveryUnparametrizedAtomNaN ==
    (pc = "done" /\ iteration_step_num >= 1 /\ MissingSymbols # {})
        => /\ \A i \in Atoms : ~Parametrized(i) => IsNaN(result[i])
           /\ OneWarningEachSymbolOnce

\* C3 amended: after a call with a positive iteration count every atom without
\* a table entry that is an endpoint of at least one bond has the charge NaN,
\* and the call emitted exactly one unparametrized-element warning naming each
\* distinct missing symbol once.
T_C3_BondedUnparametrizedAtomNaN ==
    (pc = "done" /\ iteration_step_num >= 1 /\ MissingSymbols # {})
        => /\ \A i \in Atoms :
                (~Parametrized(i) /\ ~Isolated(i)) => IsNaN(result[i])
           /\ OneWarningEachSymbolOnce

W_C3_SharedMissingElement ==
    /\ pc = "done"
    /\ iteration_step_num >= 1
    /\ Numeric(charges0)
    /\ \E i, j \in Atoms :
          /\ i # j
          /\ elements[i] = elements[j]
          /\ ~Parametrized(i) /\ ~Parametrized(j)
          /\ ~Isolated(i) /\ ~Isolated(j)
          /\ IsNaN(result[i]) /\ IsNaN(result[j])
    /\ Len(UnparametrizedWarnings) = 1

\* The endpoints of the bond the inner loop is at.
BondI == atom_bonds[b][1]
BondJ == atom_bonds[b][2]
ExactlyOneNaN == IsNaN(en_values[BondI]) # IsNaN(en_values[BondJ])
NaNEnd == IF IsNaN(en_values[BondI]) THEN BondI ELSE BondJ

\* C4: a bond step with exactly one NaN electronegativity sets the charge of
\* that endpoint to NaN and leaves every other charge, the other endpoint's
\* included, exactly as it was.
T_C4_PoisoningContained ==
    [][(pc = "bonds" /\ ExactlyOneNaN)
         => /\ IsNaN(heap'[charges][NaNEnd])
            /\ \A a \in Atoms \ {NaNEnd} : heap'[charges][a] = heap[charges][a]]_vars

\* After the first iteration over the single bond X - Y, X without parameters and
\* Y with: X is NaN, Y has the charge it started with.
W_C4_OnlyUnparametrizedPoisoned ==
    /\ pc = "loop"
    /\ step = 1
    /\ Len(atom_bonds) = 1
    /\ IsNaN(en_values[atom_bonds[1][1]]) # IsNaN(en_values[atom_bonds[1][2]])
    /\ \E x, y \in Atoms :
          /\ {x, y} = {atom_bonds[1][1], atom_bonds[1][2]}
          /\ ~Parametrized(x) /\ Parametrized(y)
          /\ IsNaN(Cur[x])
          /\ ~IsNaN(Cur[y]) /\ Cur[y] = charges0[y] /\ Cur[y] # Num(0)

\* Y has parameters and a numeric initial charge and is bonded to an atom
\* without parameters.
PoisonedNeighbour(y) ==
    /\ Parametrized(y)
    /\ ~IsNaN(charges0[y])
    /\ \E k \in DOMAIN atom_bonds :
          /\ y \in {atom_bonds[k][1], atom_bonds[k][2]}
          /\ \E x \in {atom_bonds[k][1], atom_bonds[k][2]} : ~Parametrized(x)

T_C6_MissingBondListRaisesFirst ==
    ~has_bonds =>
        /\ pc \in {"entry", "raised"}
        /\ warnings = << >>
        /\ step = 0 /\ processed = << >>
        /\ result = << >> /\ returned = << >>
        /\ charges_kw => heap.arg = charges0
        /\ has_annot => heap.annot = charges0

W_C6_RaisedBeforeWarnings ==
    /\ pc = "raised"
    /\ ~charges_kw /\ ~has_annot
    /\ MissingSymbols # {}
    /\ iteration_step_num >= 1

\* C7: an atom that is an endpoint of no bond has, in the returned array,
\* exactly the charge the call was given for it, whatever its element.
T_C7_IsolatedAtomKeepsCharge ==
    pc = "done" => \A i \in Atoms : Isolated(i) => result[i] = charges0[i]

W_C7_IsolatedAtomReturned ==
    /\ pc = "done"
    /\ iteration_step_num >= 1
    /\ \E x \in Atoms : ~Isolated(x) /\ IsNaN(result[x])
    /\ \E i \in Atoms :
          /\ Isolated(i)
          /\ ~Parametrized(i)
          /\ charges0[i] = Num(Scale)
          /\ result[i] = Num(Scale)

\* The reference charges of fluoromethane, in units of 1 / Scale, and the
\* tolerance 1e-4.
RefAfter1 == <<114700, -175400, 20200, 20200, 20200>>
RefAfter6 == <<79200, -252600, 57800, 57800, 57800>>
Tolerance == Scale \div 10000
Within(s, ref) ==
    \A i \in DOMAIN ref : ~IsNaN(s[i]) /\ Abs(s[i].v - ref[i]) <= Tolerance

IsFluoromethaneCall ==
    /\ elements = Fluoromethane.elements
    /\ atom_bonds = Fluoromethane.bonds
    /\ charges0 = Zeros(5)

\* C8: fluoromethane from all-zero charges gives the reference charges after 1
\* and after 6 iterations, within 1e-4.
T_C8_FluoromethaneReference ==
    (pc = "done" /\ IsFluoromethaneCall)
        => /\ iteration_step_num = 1 => Within(result, RefAfter1)
           /\ iteration_step_num = DefaultIterationStepNum
                 => Within(result, RefAfter6)

W_C8_SixIterationsDone ==
    /\ pc = "done"
    /\ IsFluoromethaneCall
    /\ iteration_step_num = DefaultIterationStepNum
    /\ Within(result, RefAfter6)

\* The transfer the bond step at hand would make from electronegativities en.
TransferFrom(en) == ChargeTransfer(en, pos_en_values, damping, BondI, BondJ)
BothNumeric == ~IsNaN(en_values[BondI]) /\ ~IsNaN(en_values[BondJ])
Transferred(ct) ==
    /\ heap'[charges][BondI] = FAdd(heap[charges][BondI], ct)
    /\ heap'[charges][BondJ] = FSub(heap[charges][BondJ], ct)

\* C9 as stated: the transfer of a bond step is computed from the charges as
\* the earlier bond steps of the same iteration left them.
CE_C9_TransferSeesEarlierBonds ==
    [][(pc = "bonds" /\ BothNumeric)
         => Transferred(TransferFrom(EnValues(parameters, ChargeArray(Cur))))]_vars

\* C9 amended: the transfer of a bond step is computed from the
\* electronegativities of the charges as they were when the iteration began
\* (charge_array); the changes earlier bond steps of the same iteration made
\* do not enter it, they are first read by the next iteration.
T_C9_TransferFromIterationStart ==
    [][(pc = "bonds" /\ BothNumeric)
         => Transferred(TransferFrom(EnValues(parameters, charge_array)))]_vars

\* A later bond of an iteration shares an atom whose charge an earlier bond of
\* that iteration has changed, and the two ways of computing the transfer differ.
W_C9_SharedAtomAlreadyChanged ==
    /\ pc = "bonds"
    /\ b > 1
    /\ BothNumeric
    /\ Numeric(Cur)
    /\ \E a \in {BondI, BondJ} : Cur[a] # charge_array[a][2]
    /\ TransferFrom(EnValues(parameters, ChargeArray(Cur)))
          # TransferFrom(EnValues(parameters, charge_array))

AllBondsInOrder == [k \in 1 .. Len(atom_bonds) |-> k]

HigherEnd == IF en_values[BondI].v > en_values[BondJ].v THEN BondI ELSE BondJ
LowerEnd == IF en_values[BondI].v > en_values[BondJ].v THEN BondJ ELSE BondI
EnDiffer == en_values[BondI].v # en_values[BondJ].v

\* C11: for a bond whose endpoints both have a numeric electronegativity, the
\* bond step changes the charges exactly as it would with the bond listed the
\* other way round; the divisor is the positive-ion electronegativity of the
\* endpoint with the smaller EN, nothing is transferred when the EN are equal,
\* and the charge of the endpoint with the larger EN is the one that goes down.
T_C11_OrientationDoesNotMatter ==
    [][(pc = "bonds" /\ BothNumeric)
         => /\ heap'[charges] =
                  BondUpdate(Cur, en_values, pos_en_values, damping, BondJ, BondI)
            /\ EnDiffer =>
                  /\ Divisor(en_values, pos_en_values, BondI, BondJ)
                        = pos_en_values[LowerEnd]
                  /\ Divisor(en_values, pos_en_values, BondJ, BondI)
                        = pos_en_values[LowerEnd]
                  /\ heap'[charges][HigherEnd].v <= heap[charges][HigherEnd].v
                  /\ heap'[charges][LowerEnd].v >= heap[charges][LowerEnd].v
            /\ ~EnDiffer => heap'[charges] = heap[charges]]_vars

\* The first bond <<i, j>> of an iteration has been processed, EN(i) > EN(j) and
\* the positive-ion electronegativities differ: i has lost charge, j has gained.
W_C11_FirstEndpointHigher ==
    /\ pc \in {"bonds", "loop"}
    /\ step >= 1
    /\ processed[step] = <<1>>
    /\ LET i == atom_bonds[1][1]
           j == atom_bonds[1][2]
       IN  /\ ~IsNaN(en_values[i]) /\ ~IsNaN(en_values[j])
           /\ en_values[i].v > en_values[j].v
           /\ pos_en_values[i] # pos_en_values[j]
           /\ Cur[i].v < charge_array[i][2].v
           /\ Cur[j].v > charge_array[j][2].v
           /\ Cur = BondUpdate([a \in Atoms |-> charge_array[a][2]], en_values,
                               pos_en_values, damping, j, i)

====
